---- MODULE Spec2Model ----
(***************************************************************************)
(* Model of src/src/components/Canvas.tsx: the Canvas component of a       *)
(* collaborative drawing surface.  Every client mounts one Canvas; all     *)
(* clients share one external store (the supabase table "strokes") that    *)
(* they reach through asynchronous requests and an INSERT change feed.     *)
(*                                                                         *)
(* Scheduling: one event loop per client; a handler runs to its first      *)
(* await atomically, and React applies the state updates a handler queues  *)
(* before the next event is dispatched.  Requests travel over an unordered *)
(* network; the change feed of one client is delivered in order.           *)
(***************************************************************************)
EXTENDS Integers, Sequences, FiniteSets, Bags, TLC

\* ---------------------------------------------------------------- bounds
MaxIds == 2        \* stroke ids uuidv4 hands out over a run
MaxPts == 2        \* points one stroke can grow to
MaxNet == 2        \* requests in flight at the same time
MaxFeed == 1       \* undelivered feed notifications per client

Clients == {"A", "B"}
Ids == 1..MaxIds
Null == 0
Positions == {<<1, 2>>}             \* pointer positions <<x, y>>
NoPos == <<>>                       \* getPointerPosition returned null
InitialColor == "#ff0000"            \* useState("#ff0000")
InitialThickness == 4               \* useState(4)

VARIABLES
  lines,        \* lines[c]: the useState stroke list, entries by reference or by value
  isDrawing,    \* isDrawing[c]: the useState drawing flag
  color,        \* color[c]
  thickness,    \* thickness[c]
  lastLineRef,  \* lastLineRef[c]: id of the object lastLineRef.current holds, or Null
  objs,         \* objs[id]: the Stroke object pointer-down created with that id
  timer,        \* timer[c]: the flush interval of effect 3 is set
  load,         \* load[c]: "sent", "answered" or "done" for fetchStrokes
  loadData,     \* loadData[c]: rows the select returned, while answered
  resolving,    \* resolving[c]: release pushes answered whose await has not resumed
  feed,         \* feed[c]: INSERT notifications not yet delivered
  net,          \* bag of requests in flight to the store
  rows,         \* the table "strokes", in created_at order
  nextId,       \* next id uuidv4 returns
  released,     \* history: ids for which handlePointerUp issued its push
  begun,        \* history: begun[c] is the id the last pointer-down of c created
  mounted,      \* the clients whose Canvas is mounted and subscribed
  lost,         \* history: ids whose release push failed, not pushed again since
  cleared,      \* history: the strokes drawn before the latest clear command
  ev            \* history: the last event handled

vars == <<lines, isDrawing, color, thickness, lastLineRef, objs, timer, load,
          loadData, resolving, feed, net, rows, nextId, released, begun, mounted,
          lost, cleared, ev>>

\* ------------------------------------------------------------ data model
NoStroke == [id |-> Null, color |-> "", thickness |-> 0, points |-> <<>>]

\* A Stroke value: flat points [x0, y0, x1, y1, ...].
Stroke(i, col, th, pts) == [id |-> i, color |-> col, thickness |-> th, points |-> pts]

\* An entry of lines: a reference to the object objs[id], or a value of its own.
RefEntry(i) == [obj |-> TRUE, id |-> i, color |-> "", thickness |-> 0, points |-> <<>>]
ValEntry(s) == [obj |-> FALSE, id |-> s.id, color |-> s.color,
                thickness |-> s.thickness, points |-> s.points]

\* for (i = 0; i < points.length; i += 2) pointsArray.push({x: points[i], y: points[i+1]})
RECURSIVE ToPointsFrom(_, _)
ToPointsFrom(flat, i) ==
  IF i > Len(flat) THEN <<>>
  ELSE <<[x |-> flat[i], y |-> (IF i + 1 <= Len(flat) THEN flat[i + 1] ELSE Null)]>>
       \o ToPointsFrom(flat, i + 2)
ToPoints(flat) == ToPointsFrom(flat, 1)

\* s.points.flatMap(p => [p.x, p.y])
RECURSIVE ToFlat(_)
ToFlat(pts) ==
  IF pts = <<>> THEN <<>> ELSE <<Head(pts).x, Head(pts).y>> \o ToFlat(Tail(pts))

\* The row an upsert carries for a Stroke object.
RowOf(s) == [id |-> s.id, color |-> s.color, thickness |-> s.thickness,
             points |-> ToPoints(s.points)]

\* s.points is an array: a row without the field makes s.points.flatMap throw.
WellFormed(r) == "points" \in DOMAIN r

\* The Stroke a client decodes from a row (initial load and feed callback).
Formatted(r) == Stroke(r.id, r.color, r.thickness, ToFlat(r.points))

\* ---------------------------------------------------------- observations
Deref(e) == IF e.obj THEN objs[e.id] ELSE Stroke(e.id, e.color, e.thickness, e.points)

\* What <Layer> renders for client c.
Snapshot(c) == [i \in DOMAIN lines[c] |-> Deref(lines[c][i])]
SnapIds(c) == {lines[c][i].id : i \in DOMAIN lines[c]}

RowIds == {rows[i].id : i \in DOMAIN rows}
RowFor(i) == rows[CHOOSE k \in DOMAIN rows : rows[k].id = i]

Event(op, c, i) == [op |-> op, c |-> c, id |-> i]

\* ------------------------------------------------------------------ Init
\* The state after the Canvas of every client in M has mounted on an empty
\* table: effect 2 has subscribed, nothing is drawn, and the select of effect 1
\* is in flight (ld = "sent") or has returned no rows and was applied ("done").
Mounted(M, ld) ==
  /\ lines = [c \in Clients |-> <<>>]
  /\ isDrawing = [c \in Clients |-> FALSE]
  /\ color = [c \in Clients |-> InitialColor]
  /\ thickness = [c \in Clients |-> InitialThickness]
  /\ lastLineRef = [c \in Clients |-> Null]
  /\ objs = [i \in Ids |-> NoStroke]
  /\ timer = [c \in Clients |-> FALSE]
  /\ load = [c \in Clients |-> IF c \in M THEN ld ELSE "done"]
  /\ loadData = [c \in Clients |-> <<>>]
  /\ resolving = [c \in Clients |-> 0]
  /\ feed = [c \in Clients |-> <<>>]
  /\ net = EmptyBag
  /\ rows = <<>>
  /\ nextId = 1
  /\ released = {}
  /\ begun = [c \in Clients |-> Null]
  /\ mounted = M
  /\ lost = {}
  /\ cleared = {}
  /\ ev = Event("mount", "A", Null)

Init == Mounted({"A"}, "done")

\* ------------------------------------------------------ pointer handlers
\* setLines(prev => [...prev, newLine])
AppendLine(prev, e) == Append(prev, e)

\* The effect without its cleanup: an interval, once set, is never cleared.
FlushEffect_NeverCleared(set, was, now, ref) ==
  set \/ (now /\ ref # Null)

\* Effect 3, run after a render whose isDrawing is `now` (it was `was`): the
\* cleanup clears the interval, the body sets one if the gesture has a stroke.
FlushEffect(set, was, now, ref) ==
  IF was = now THEN set ELSE now /\ ref # Null

handlePointerDown(c) ==
  \E pos \in Positions \cup {NoPos} :
    IF pos = NoPos
    THEN /\ ev' = Event("down", c, Null)
         /\ UNCHANGED <<lines, isDrawing, color, thickness, lastLineRef, objs, timer,
                        load, loadData, resolving, feed, net, rows, nextId, released,
                        begun, mounted, lost, cleared>>
    ELSE /\ nextId <= MaxIds
         /\ objs' = [objs EXCEPT ![nextId] =
                       Stroke(nextId, color[c], thickness[c], <<pos[1], pos[2]>>)]
         /\ lastLineRef' = [lastLineRef EXCEPT ![c] = nextId]
         /\ lines' = [lines EXCEPT ![c] = AppendLine(@, RefEntry(nextId))]
         /\ isDrawing' = [isDrawing EXCEPT ![c] = TRUE]
         /\ timer' = [timer EXCEPT ![c] = FlushEffect(@, isDrawing[c], TRUE, nextId)]
         /\ nextId' = nextId + 1
         /\ ev' = Event("down", c, nextId)
         /\ begun' = [begun EXCEPT ![c] = nextId]
         /\ UNCHANGED <<color, thickness, load, loadData, resolving, feed, net,
                        rows, released, mounted, lost, cleared>>

\* setLines(prev => [...prev.slice(0, -1), lastLineRef.current!])
ReplaceLast(prev, e) == Append(SubSeq(prev, 1, Len(prev) - 1), e)

\* The guard without its test of the drawing flag.
MoveAccepted_IgnoresFlag(c, point) == lastLineRef[c] # Null /\ point # NoPos

\* if (!isDrawing || !lastLineRef.current) return ... if (!point) return
MoveAccepted(c, point) == isDrawing[c] /\ lastLineRef[c] # Null /\ point # NoPos

\* The extension that overwrites the newest point instead of adding one.
AppendPoint_ReplacesLast(pts, point) ==
  SubSeq(pts, 1, Len(pts) - 2) \o <<point[1], point[2]>>

\* lastLineRef.current.points.concat([point.x, point.y])
AppendPoint(pts, point) == pts \o <<point[1], point[2]>>

handlePointerMove(c) ==
  \E point \in Positions \cup {NoPos} :
    IF ~MoveAccepted(c, point)
    THEN /\ ev' = Event("move", c, Null)
         /\ UNCHANGED <<lines, isDrawing, color, thickness, lastLineRef, objs, timer,
                        load, loadData, resolving, feed, net, rows, nextId, released,
                        begun, mounted, lost, cleared>>
    ELSE LET cur == lastLineRef[c] IN
         /\ Len(objs[cur].points) < 2 * MaxPts
         /\ objs' = [objs EXCEPT ![cur].points = AppendPoint(@, point)]
         /\ lines' = [lines EXCEPT ![c] = ReplaceLast(@, RefEntry(cur))]
         /\ ev' = Event("move", c, cur)
         /\ UNCHANGED <<isDrawing, color, thickness, lastLineRef, timer, load,
                        loadData, resolving, feed, net, rows, nextId, released, begun,
                        mounted, lost, cleared>>

\* supabase.from("strokes").upsert([{id, color, thickness, points: pointsArray}])
Upsert(c, s, final) == [op |-> "upsert", c |-> c, row |-> RowOf(s), final |-> final]
\* supabase.from("strokes").delete().neq("id", sentinel)
Delete(c) == [op |-> "delete", c |-> c, row |-> RowOf(NoStroke), final |-> FALSE]
Send(m) == net (+) SetToBag({m})
\* Requests issued whose promise has not resumed its handler yet.
RECURSIVE SumOver(_, _)
SumOver(f, S) == IF S = {} THEN 0
                 ELSE LET c == CHOOSE x \in S : TRUE IN f[c] + SumOver(f, S \ {c})
InFlight == BagCardinality(net) + SumOver(resolving, Clients)

handlePointerUp(c) ==
  /\ isDrawing' = [isDrawing EXCEPT ![c] = FALSE]
  /\ timer' = [timer EXCEPT ![c] = FlushEffect(@, isDrawing[c], FALSE, lastLineRef[c])]
  /\ IF lastLineRef[c] = Null
     THEN /\ ev' = Event("up", c, Null)
          /\ UNCHANGED <<net, released, lost>>
     ELSE /\ InFlight < MaxNet
          /\ net' = Send(Upsert(c, objs[lastLineRef[c]], TRUE))
          /\ released' = released \cup {lastLineRef[c]}
          /\ lost' = lost \ {lastLineRef[c]}
          /\ ev' = Event("up", c, lastLineRef[c])
  /\ UNCHANGED <<lines, color, thickness, lastLineRef, objs, load, loadData,
                 resolving, feed, rows, nextId, begun, mounted, cleared>>

\* lastLineRef.current = null, after the release push was answered
PushResolved(c) ==
  /\ resolving[c] > 0
  /\ resolving' = [resolving EXCEPT ![c] = @ - 1]
  /\ lastLineRef' = [lastLineRef EXCEPT ![c] = Null]
  /\ ev' = Event("resolved", c, Null)
  /\ UNCHANGED <<lines, isDrawing, color, thickness, objs, timer, load, loadData,
                 feed, net, rows, nextId, released, begun, mounted, lost, cleared>>

\* One tick of the setInterval callback of effect 3.
FlushTick(c) ==
  /\ timer[c]
  /\ IF lastLineRef[c] = Null
     THEN /\ ev' = Event("tick", c, Null)
          /\ UNCHANGED net
     ELSE /\ InFlight < MaxNet
          /\ net' = Send(Upsert(c, objs[lastLineRef[c]], FALSE))
          /\ ev' = Event("tick", c, lastLineRef[c])
  /\ UNCHANGED <<lines, isDrawing, color, thickness, lastLineRef, objs, timer, load,
                 loadData, resolving, feed, rows, nextId, released, begun, mounted,
                 lost, cleared>>

clearCanvas(c) ==
  /\ InFlight < MaxNet
  /\ lines' = [lines EXCEPT ![c] = <<>>]
  /\ net' = Send(Delete(c))
  /\ cleared' = {i \in Ids : objs[i] # NoStroke}
  /\ ev' = Event("clear", c, Null)
  /\ UNCHANGED <<isDrawing, color, thickness, lastLineRef, objs, timer, load,
                 loadData, resolving, feed, rows, nextId, released, begun, mounted,
                 lost>>

\* ------------------------------------------------------- initial load
\* The store answers select("*").order("created_at", {ascending: true}).
SelectAll(c) ==
  /\ load[c] = "sent"
  /\ load' = [load EXCEPT ![c] = "answered"]
  /\ loadData' = [loadData EXCEPT ![c] = rows]
  /\ ev' = Event("select", c, Null)
  /\ UNCHANGED <<lines, isDrawing, color, thickness, lastLineRef, objs, timer,
                 resolving, feed, net, rows, nextId, released, begun, mounted, lost,
                 cleared>>

\* The load that lists the newest row first.
FormatAll_Descending(data) ==
  [i \in DOMAIN data |-> ValEntry(Formatted(data[Len(data) + 1 - i]))]

\* data.map(s => ({id, color, thickness, points: s.points.flatMap(...)}))
FormatAll(data) == [i \in DOMAIN data |-> ValEntry(Formatted(data[i]))]

\* fetchStrokes resumes after its await: setLines(formatted).  A row that makes
\* flatMap throw ends data.map and the function before setLines; React drops a
\* state update queued for a component that is no longer mounted.
fetchStrokes(c) ==
  /\ load[c] = "answered"
  /\ IF \A i \in DOMAIN loadData[c] : WellFormed(loadData[c][i])
     THEN /\ lines' = [lines EXCEPT ![c] =
                         IF c \in mounted THEN FormatAll(loadData[c]) ELSE @]
          /\ ev' = Event("loaded", c, Null)
     ELSE /\ lines' = lines
          /\ ev' = Event("loadThrew", c, Null)
  /\ load' = [load EXCEPT ![c] = "done"]
  /\ loadData' = [loadData EXCEPT ![c] = <<>>]
  /\ UNCHANGED <<isDrawing, color, thickness, lastLineRef, objs, timer, resolving,
                 feed, net, rows, nextId, released, begun, mounted, lost, cleared>>

\* ------------------------------------------------------------ change feed
\* The merge that lets the incoming record replace the entry it finds.
mergeRemote_LastWriterWins(prev, stroke) ==
  IF \E i \in DOMAIN prev : prev[i].id = stroke.id
  THEN [i \in DOMAIN prev |-> IF prev[i].id = stroke.id THEN ValEntry(stroke) ELSE prev[i]]
  ELSE Append(prev, ValEntry(stroke))

\* The merge that puts a new stroke in front of the list.
mergeRemote_Prepend(prev, stroke) ==
  IF \E i \in DOMAIN prev : prev[i].id = stroke.id
  THEN prev
  ELSE <<ValEntry(stroke)>> \o prev

\* setLines(prev => prev.some(l => l.id === stroke.id) ? prev : [...prev, stroke])
mergeRemote(prev, stroke) ==
  IF \E i \in DOMAIN prev : prev[i].id = stroke.id
  THEN prev
  ELSE Append(prev, ValEntry(stroke))

\* The INSERT callback of the subscription, for the oldest undelivered event.
\* A payload that makes flatMap throw ends the callback before setLines.
FeedInsert(c) ==
  /\ feed[c] # <<>>
  /\ IF WellFormed(Head(feed[c]))
     THEN /\ lines' = [lines EXCEPT ![c] = mergeRemote(@, Formatted(Head(feed[c])))]
          /\ ev' = Event("feed", c, Head(feed[c]).id)
     ELSE /\ lines' = lines
          /\ ev' = Event("feedThrew", c, Head(feed[c]).id)
  /\ feed' = [feed EXCEPT ![c] = Tail(@)]
  /\ UNCHANGED <<isDrawing, color, thickness, lastLineRef, objs, timer, load,
                 loadData, resolving, net, rows, nextId, released, begun, mounted,
                 lost, cleared>>

\* -------------------------------------------------------------- the store
\* upsert: insert-or-replace by id; a row that is created keeps its place in
\* created_at order and is announced to every subscriber as an INSERT.
UpsertRow(rs, r) ==
  IF \E k \in DOMAIN rs : rs[k].id = r.id
  THEN [k \in DOMAIN rs |-> IF rs[k].id = r.id THEN r ELSE rs[k]]
  ELSE Append(rs, r)

\* The INSERT notification of a created row, queued for every subscriber.
Announce(r) == [c \in Clients |-> IF c \in mounted THEN Append(feed[c], r) ELSE feed[c]]

StoreUpsert ==
  \E m \in BagToSet(net) :
    /\ m.op = "upsert"
    /\ net' = net (-) SetToBag({m})
    /\ rows' = UpsertRow(rows, m.row)
    /\ IF m.row.id \in RowIds
       THEN feed' = feed
       ELSE /\ \A c \in mounted : Len(feed[c]) < MaxFeed
            /\ feed' = Announce(m.row)
    /\ resolving' = [resolving EXCEPT ![m.c] = IF m.final THEN @ + 1 ELSE @]
    /\ ev' = Event("upserted", m.c, m.row.id)
    /\ UNCHANGED <<lines, isDrawing, color, thickness, lastLineRef, objs, timer,
                   load, loadData, nextId, released, begun, mounted, lost, cleared>>

\* The request of an upsert fails in transport and never reaches the table.
\* supabase-js resolves the awaited promise with {error}; neither caller reads
\* the result, so the handler of a release resumes as after a success.
UpsertFails ==
  \E m \in BagToSet(net) :
    /\ m.op = "upsert"
    /\ net' = net (-) SetToBag({m})
    /\ resolving' = [resolving EXCEPT ![m.c] = IF m.final THEN @ + 1 ELSE @]
    /\ lost' = IF m.final THEN lost \cup {m.row.id} ELSE lost
    /\ ev' = Event("failed", m.c, m.row.id)
    /\ UNCHANGED <<lines, isDrawing, color, thickness, lastLineRef, objs, timer,
                   load, loadData, feed, rows, nextId, released, begun, mounted,
                   cleared>>

\* delete().neq("id", "00000000-0000-0000-0000-000000000000")
Sentinel == Null
DeleteRows(rs) == SelectSeq(rs, LAMBDA r : ~(r.id # Sentinel))

StoreDelete ==
  \E m \in BagToSet(net) :
    /\ m.op = "delete"
    /\ net' = net (-) SetToBag({m})
    /\ rows' = DeleteRows(rows)
    /\ ev' = Event("deleted", m.c, Null)
    /\ UNCHANGED <<lines, isDrawing, color, thickness, lastLineRef, objs, timer, load,
                   loadData, resolving, feed, nextId, released, begun, mounted, lost,
                   cleared>>

\* ------------------------------------------------------- other sessions
\* Flat point lists of n pointer positions.
RECURSIVE FlatSeqs(_)
FlatSeqs(n) ==
  IF n = 0 THEN {<<>>}
  ELSE {f \o <<p[1], p[2]>> : f \in FlatSeqs(n - 1), p \in Positions}

\* Ids handed out to sessions that are not modelled as a client.
RemoteIds == {i \in Ids : i < nextId /\ objs[i] = NoStroke}

\* The upsert of a tick or a release of some other session reaches the store:
\* a stroke that session authors, with the points it has at that moment.
RemoteUpsert ==
  \E i \in RemoteIds \cup ({nextId} \cap Ids), n \in 1..MaxPts :
    \E pts \in FlatSeqs(n) :
      LET r == RowOf(Stroke(i, InitialColor, InitialThickness, pts)) IN
      /\ nextId' = IF i = nextId THEN nextId + 1 ELSE nextId
      /\ rows' = UpsertRow(rows, r)
      /\ IF i \in RowIds
         THEN feed' = feed
         ELSE /\ \A c \in mounted : Len(feed[c]) < MaxFeed
              /\ feed' = Announce(r)
      /\ ev' = Event("remote", "-", i)
      /\ UNCHANGED <<lines, isDrawing, color, thickness, lastLineRef, objs, timer,
                     load, loadData, resolving, net, released, begun, mounted, lost,
                     cleared>>

\* Some other writer inserts a row that has no points.
RemoteMalformed ==
  LET r == [id |-> nextId, color |-> InitialColor, thickness |-> InitialThickness] IN
  /\ nextId \in Ids
  /\ nextId' = nextId + 1
  /\ rows' = UpsertRow(rows, r)
  /\ \A c \in mounted : Len(feed[c]) < MaxFeed
  /\ feed' = Announce(r)
  /\ ev' = Event("remoteMalformed", "-", nextId)
  /\ UNCHANGED <<lines, isDrawing, color, thickness, lastLineRef, objs, timer,
                 load, loadData, resolving, net, released, begun, mounted, lost,
                 cleared>>

\* ---------------------------------------------------------------- unmount
\* The Canvas of c unmounts: the cleanup of effect 2 removes the channel, so
\* that no notification is delivered any more, and the cleanup of effect 3
\* clears the interval.  Requests in flight and the handlers that await them
\* are not cancelled.
Unmount(c) ==
  /\ c \in mounted
  /\ mounted' = mounted \ {c}
  /\ feed' = [feed EXCEPT ![c] = <<>>]
  /\ timer' = [timer EXCEPT ![c] = FALSE]
  /\ ev' = Event("unmount", c, Null)
  /\ UNCHANGED <<lines, isDrawing, color, thickness, lastLineRef, objs, load,
                 loadData, resolving, net, rows, nextId, released, begun, lost,
                 cleared>>

\* ------------------------------------------------------------------ Next
\* One client whose initial load is over, among sessions that are not modelled
\* in detail.
Next ==
  \/ \E c \in mounted : handlePointerDown(c)
  \/ \E c \in mounted : handlePointerMove(c)
  \/ \E c \in mounted : handlePointerUp(c)
  \/ \E c \in mounted : clearCanvas(c)
  \/ \E c \in mounted : PushResolved(c)
  \/ \E c \in mounted : FlushTick(c)
  \/ \E c \in mounted : FeedInsert(c)
  \/ StoreUpsert
  \/ StoreDelete
  \/ RemoteUpsert

Spec == Init /\ [][Next]_vars

\* Two clients on one store; the user of B only watches.
InitPair == Mounted({"A", "B"}, "done")

NextPair ==
  \/ handlePointerDown("A")
  \/ handlePointerMove("A")
  \/ handlePointerUp("A")
  \/ clearCanvas("A")
  \/ \E c \in mounted : PushResolved(c)
  \/ \E c \in mounted : FlushTick(c)
  \/ \E c \in mounted : FeedInsert(c)
  \/ StoreUpsert
  \/ StoreDelete

SpecPair == InitPair /\ [][NextPair]_vars

\* One client from its mount on, the select of effect 1 still in flight, on a
\* table that nobody clears.
InitLoad == Mounted({"A"}, "sent")

NextLoad ==
  \/ \E c \in mounted : handlePointerDown(c)
  \/ \E c \in mounted : handlePointerMove(c)
  \/ \E c \in mounted : handlePointerUp(c)
  \/ \E c \in mounted : PushResolved(c)
  \/ \E c \in mounted : FlushTick(c)
  \/ \E c \in mounted : FeedInsert(c)
  \/ \E c \in mounted : SelectAll(c)
  \/ \E c \in mounted : fetchStrokes(c)
  \/ StoreUpsert
  \/ RemoteUpsert

SpecLoad == InitLoad /\ [][NextLoad]_vars

\* One client on a network that may fail an upsert.
NextErr ==
  \/ \E c \in mounted : handlePointerDown(c)
  \/ \E c \in mounted : handlePointerMove(c)
  \/ \E c \in mounted : handlePointerUp(c)
  \/ \E c \in mounted : PushResolved(c)
  \/ \E c \in mounted : FlushTick(c)
  \/ \E c \in mounted : FeedInsert(c)
  \/ StoreUpsert
  \/ UpsertFails

SpecErr == Init /\ [][NextErr]_vars

\* One client from its mount on, on a table that also gets rows without points.
NextBad ==
  \/ \E c \in mounted : handlePointerDown(c)
  \/ \E c \in mounted : handlePointerMove(c)
  \/ \E c \in mounted : handlePointerUp(c)
  \/ \E c \in mounted : PushResolved(c)
  \/ \E c \in mounted : FlushTick(c)
  \/ \E c \in mounted : FeedInsert(c)
  \/ \E c \in mounted : SelectAll(c)
  \/ \E c \in mounted : fetchStrokes(c)
  \/ StoreUpsert
  \/ RemoteUpsert
  \/ RemoteMalformed

SpecBad == InitLoad /\ [][NextBad]_vars

\* One client from its mount to after its unmount: the user's input reaches
\* a mounted Canvas only; a timer, a subscription or an awaited request calls
\* back whenever it is still set, subscribed or pending.
NextUnmount ==
  \/ \E c \in mounted : handlePointerDown(c)
  \/ \E c \in mounted : handlePointerMove(c)
  \/ \E c \in mounted : handlePointerUp(c)
  \/ \E c \in mounted : Unmount(c)
  \/ \E c \in Clients : PushResolved(c)
  \/ \E c \in Clients : FlushTick(c)
  \/ \E c \in Clients : FeedInsert(c)
  \/ \E c \in Clients : SelectAll(c)
  \/ \E c \in Clients : fetchStrokes(c)
  \/ StoreUpsert
  \/ RemoteUpsert

SpecUnmount == InitLoad /\ [][NextUnmount]_vars

\* ---------------------------------------------------------------- claims
\* The entries of a snapshot other than those of stroke i, in order.
Others(snap, i) == SelectSeq(snap, LAMBDA s : s.id # i)

\* The requests in flight that carry stroke i.
PushesFor(i) == {m \in BagToSet(net) : m.op = "upsert" /\ m.row.id = i}

\* C1: the snapshot of a client holds at most one entry per stroke id.
C1_OneEntryPerId ==
  \A c \in Clients : \A i, j \in DOMAIN lines[c] :
    lines[c][i].id = lines[c][j].id => i = j

\* C2: a pointer-move that extends the in-progress stroke leaves every other
\* entry of the snapshot in place, with the same content and relative order, and
\* no step other than a clear or the initial-load replace takes a stroke out of
\* a snapshot.
C2_MoveTouchesOwnEntryOnly ==
  [][\A c \in Clients :
       /\ (ev'.op = "move" /\ ev'.c = c /\ ev'.id # Null)
            => Others(Snapshot(c)', ev'.id) = Others(Snapshot(c), ev'.id)
       /\ (ev'.op \notin {"clear", "loaded"} \/ ev'.c # c)
            => SnapIds(c) \subseteq SnapIds(c)']_vars

\* C3: once no push of a released stroke is in flight any more, the row the
\* store holds for it carries the points the stroke had at release.
C3_FlushConvergence ==
  \A i \in released :
    (PushesFor(i) = {} /\ i \in RowIds)
      => RowFor(i).points = ToPoints(objs[i].points)

\* C4: once every push has landed and every notification is delivered, the
\* snapshot of the watching client B holds exactly one entry for each stroke A
\* released, equal to the stroke A drew.
C4_CrossClientConvergence ==
  \A i \in released :
    (net = EmptyBag /\ feed["B"] = <<>> /\ i \in RowIds)
      => /\ Cardinality({k \in DOMAIN lines["B"] : lines["B"][k].id = i}) = 1
         /\ \A k \in DOMAIN lines["B"] :
              lines["B"][k].id = i => Snapshot("B")[k] = objs[i]

\* C5: the pointer-up that ends a gesture issues a push with the id and the
\* complete points of the stroke the gesture's pointer-down began.
C5_ReleaseIssuesFinalPush ==
  [][\A c \in Clients :
       (ev'.op = "up" /\ ev'.c = c /\ isDrawing[c])
         => CopiesIn(Upsert(c, objs[begun[c]], TRUE), net')
              = CopiesIn(Upsert(c, objs[begun[c]], TRUE), net) + 1]_vars

\* C6: a feed notification for a stroke whose id is in the snapshot leaves the
\* snapshot as it is: same entries, same order, same (locally authored) content.
C6_KnownIdIgnored ==
  [][\A c \in Clients :
       (ev'.op = "feed" /\ ev'.c = c /\ ev'.id \in SnapIds(c))
         => Snapshot(c)' = Snapshot(c)]_vars

\* A self-echo was delivered to the author, whose entry is still the local
\* object, with more points than the row the store holds.
C6_Witness ==
  \E c \in Clients :
    /\ ev.op = "feed" /\ ev.c = c
    /\ \E k \in DOMAIN lines[c] : lines[c][k] = RefEntry(ev.id)
    /\ ev.id \in RowIds
    /\ Len(RowFor(ev.id).points) < Len(ToPoints(objs[ev.id].points))

\* C7: right after a clear the snapshot is empty, and a stroke that existed
\* before enters a snapshot it is not in only through a feed notification.
C7_ClearIsTotal ==
  [][\A c \in Clients :
       /\ (ev'.op = "clear" /\ ev'.c = c) => Snapshot(c)' = <<>>
       /\ \A i \in Ids :
            (i < nextId /\ i \notin SnapIds(c) /\ i \in SnapIds(c)')
              => (ev'.op = "feed" /\ ev'.c = c /\ ev'.id = i)]_vars

\* C8: the clear command leaves the controller Idle: not drawing, no
\* in-progress stroke, flush timer stopped.
C8_ClearLeavesIdle ==
  [][\A c \in Clients :
       (ev'.op = "clear" /\ ev'.c = c)
         => ~isDrawing'[c] /\ lastLineRef'[c] = Null /\ ~timer'[c]]_vars

\* C9: a feed notification for a stroke whose id is not in the snapshot appends
\* the decoded stroke as one entry at the end; the entries before it stay.
C9_NewIdAppended ==
  [][\A c \in Clients :
       (ev'.op = "feed" /\ ev'.c = c /\ ev'.id \notin SnapIds(c))
         => Snapshot(c)' = Append(Snapshot(c), Formatted(Head(feed[c])))]_vars

\* A notification was appended behind entries that were already there.
C9_Witness ==
  \E c \in Clients :
    /\ ev.op = "feed" /\ ev.c = c
    /\ Len(lines[c]) >= 2
    /\ lines[c][Len(lines[c])].id = ev.id
    /\ ~lines[c][Len(lines[c])].obj
    /\ \A k \in 1..(Len(lines[c]) - 1) : lines[c][k].id # ev.id

\* The strokes of gestures that are under way.
ActiveStrokes == {begun[c] : c \in {d \in Clients : isDrawing[d]}}

\* C10: a pointer-move that arrives while the controller is not drawing, or
\* has no in-progress stroke, changes no stroke and no snapshot; and no step
\* changes a stroke whose gesture is over.
C10_LateMoveIsNoop ==
  [][/\ \A c \in Clients :
          (ev'.op = "move" /\ ev'.c = c /\ (~isDrawing[c] \/ lastLineRef[c] = Null))
            => /\ objs' = objs
               /\ lines' = lines
               /\ UNCHANGED <<isDrawing, lastLineRef, timer, net, feed, rows>>
     /\ \A i \in Ids :
          (objs[i] # NoStroke /\ i \notin ActiveStrokes) => objs'[i] = objs[i]]_vars

\* A pointer-move arrived after the release of a stroke whose push is not yet
\* answered, so that lastLineRef.current still holds the stroke.
C10_Witness ==
  \E c \in Clients :
    /\ ev = Event("move", c, Null)
    /\ ~isDrawing[c]
    /\ lastLineRef[c] \in released

\* C11: a pointer-up that arrives while the controller is not drawing (an
\* earlier pointer-up ended the gesture and no pointer-down came since, the
\* push of that release answered or not) issues no push and changes nothing.
C11_DoubleReleaseIsNoop ==
  [][\A c \in Clients :
       (ev'.op = "up" /\ ev'.c = c /\ ~isDrawing[c])
         => /\ net' = net
            /\ released' = released
            /\ UNCHANGED <<lines, isDrawing, lastLineRef, objs, timer, resolving,
                           feed, rows>>]_vars

\* C12: every accepted pointer-move extends the in-progress stroke by exactly
\* one point, the points it had before staying in front as they were; and no
\* step makes the point sequence of a stroke shorter.
C12_MonotonicGrowth ==
  [][/\ \A c \in Clients :
          (ev'.op = "move" /\ ev'.c = c /\ ev'.id # Null)
            => LET old == objs[ev'.id].points
                   new == objs'[ev'.id].points IN
               /\ ev'.id = lastLineRef[c]
               /\ Len(new) = Len(old) + 2
               /\ SubSeq(new, 1, Len(old)) = old
     /\ \A i \in Ids :
          objs[i] # NoStroke
            => /\ Len(objs'[i].points) >= Len(objs[i].points)
               /\ SubSeq(objs'[i].points, 1, Len(objs[i].points)) = objs[i].points]_vars

\* A pointer-move was accepted and took the in-progress stroke of a gesture
\* under way from its first point to MaxPts points.
C12_Witness ==
  \E c \in Clients :
    /\ ev.op = "move" /\ ev.c = c /\ ev.id # Null
    /\ isDrawing[c] /\ lastLineRef[c] = ev.id
    /\ Len(objs[ev.id].points) = 2 * MaxPts

\* C13: the row a tick or a release pushes decodes back to the stroke it was
\* made from, and the initial load turns the rows the store returned into a
\* snapshot with one entry per row, in the order of the rows (ascending
\* creation time), each with the id, color, thickness and the flat sequence
\* x0, y0, x1, y1, ... of the row's points.
C13_LoadRoundTrip ==
  [][\A c \in Clients :
       /\ (ev'.op \in {"tick", "up"} /\ ev'.c = c /\ ev'.id # Null)
            => \E m \in BagToSet(net') :
                 /\ m.op = "upsert" /\ m.c = c /\ m.row.id = ev'.id
                 /\ Formatted(m.row) = objs[ev'.id]
       /\ (ev'.op = "loaded" /\ ev'.c = c)
            => /\ Len(Snapshot(c)') = Len(loadData[c])
               /\ \A k \in DOMAIN loadData[c] :
                    LET s == Snapshot(c)'[k]
                        r == loadData[c][k] IN
                    /\ s.id = r.id /\ s.color = r.color /\ s.thickness = r.thickness
                    /\ Len(s.points) = 2 * Len(r.points)
                    /\ \A j \in DOMAIN r.points :
                         /\ s.points[2 * j - 1] = r.points[j].x
                         /\ s.points[2 * j] = r.points[j].y]_vars

\* A load seeded two strokes; one of them is a stroke this client drew and
\* pushed with MaxPts points, and the loaded copy equals the drawn object.
C13_Witness ==
  \E c \in Clients :
    /\ ev.op = "loaded" /\ ev.c = c
    /\ Len(lines[c]) = 2
    /\ \E k \in DOMAIN lines[c] :
         /\ ~lines[c][k].obj
         /\ objs[lines[c][k].id] # NoStroke
         /\ Len(lines[c][k].points) = 2 * MaxPts
         /\ Snapshot(c)[k] = objs[lines[c][k].id]

\* C14: once the Canvas of a client is unmounted no step changes its stroke
\* list, its in-progress stroke reference, its drawing flag or its timer, and
\* neither its feed callback nor its flush tick runs.
C14_NoCallbackAfterUnmount ==
  [][\A c \in Clients \ mounted :
       /\ lines'[c] = lines[c]
       /\ lastLineRef'[c] = lastLineRef[c]
       /\ isDrawing'[c] = isDrawing[c]
       /\ timer'[c] = timer[c]
       /\ ev'.op \in {"tick", "feed"} => ev'.c # c]_vars

\* C15: a stroke whose release push failed in transport is pushed again: as
\* long as no push of it was issued since the failure, a push of it is in
\* flight or a handler that awaits its push has yet to resume.
C15_FailedFinalPushRetried ==
  \A i \in lost : PushesFor(i) # {} \/ SumOver(resolving, Clients) > 0

\* C16: a feed notification without points is dropped on its own (the snapshot
\* stays, the notifications behind it are still delivered), and after an
\* initial load the snapshot has an entry for every row of the answer that has
\* points and gained none for a row that has not.
C16_MalformedDroppedAlone ==
  [][\A c \in Clients :
       /\ (ev'.op \in {"feed", "feedThrew"} /\ ev'.c = c /\ ~WellFormed(Head(feed[c])))
            => Snapshot(c)' = Snapshot(c) /\ feed'[c] = Tail(feed[c])
       /\ (ev'.op \in {"loaded", "loadThrew"} /\ ev'.c = c)
            => \A k \in DOMAIN loadData[c] :
                 LET r == loadData[c][k] IN
                 IF WellFormed(r)
                 THEN r.id \in SnapIds(c)'
                 ELSE r.id \notin SnapIds(c) => r.id \notin SnapIds(c)']_vars

\* C17: the flush interval of a client is set exactly while its drawing flag
\* is set; a tick runs only while the flag is set, and a tick that issues a
\* push issues one upsert, which carries the id, color, thickness and current
\* points of the stroke the latest pointer-down began.
C17_FlushRunsWhileDrawing ==
  [][\A c \in Clients :
       /\ timer'[c] = isDrawing'[c]
       /\ (ev'.op = "tick" /\ ev'.c = c)
            => /\ isDrawing[c]
               /\ \/ net' = net
                  \/ \E m \in BagToSet(net') :
                       /\ net' = net (+) SetToBag({m})
                       /\ m.op = "upsert" /\ m.c = c /\ ~m.final
                       /\ lastLineRef[c] = begun[c]
                       /\ m.row.id = begun[c]
                       /\ m.row.color = objs[begun[c]].color
                       /\ m.row.thickness = objs[begun[c]].thickness
                       /\ ToFlat(m.row.points) = objs[begun[c]].points]_vars

\* A tick of a gesture under way pushed its stroke after a pointer-move had
\* extended it to MaxPts points.
C17_Witness ==
  \E c \in Clients :
    /\ ev.op = "tick" /\ ev.c = c /\ ev.id = begun[c] /\ ev.id # Null
    /\ isDrawing[c] /\ timer[c]
    /\ Len(objs[ev.id].points) = 2 * MaxPts
    /\ CopiesIn(Upsert(c, objs[ev.id], FALSE), net) >= 1

\* C18: whenever the drawing flag of a client is set, its in-progress stroke
\* reference holds the stroke its latest pointer-down created; no answer to
\* the push of an earlier release takes it away.
C18_DrawingHasItsStroke ==
  \A c \in Clients :
    isDrawing[c] => lastLineRef[c] # Null /\ lastLineRef[c] = begun[c]

\* C19: the step that applies the initial load takes no stroke out of the
\* snapshot (a stroke the user began or the feed merged before the answer
\* arrived is still there), and a pointer-move of a gesture in progress
\* changes no entry but that of its own stroke.
C19_LoadKeepsStrokes ==
  [][\A c \in Clients :
       /\ (ev'.op = "loaded" /\ ev'.c = c) => SnapIds(c) \subseteq SnapIds(c)'
       /\ (ev'.op = "move" /\ ev'.c = c /\ ev'.id # Null)
            => Others(Snapshot(c)', ev'.id) = Others(Snapshot(c), ev'.id)]_vars

\* C20: once the delete of the latest clear command has been applied and
\* every push has landed, the table holds no stroke that was drawn before that
\* clear command.
C20_ClearedStaysCleared ==
  (cleared # {} /\ net = EmptyBag) => RowIds \cap cleared = {}
====
